---- MODULE Spec2Model ----
(***************************************************************************)
(* Model of qmk-oled-api's OledScreen (src/src/screen.rs): the monochrome  *)
(* canvas and its byte/bit addressing, the packetizer to_packets(), and    *)
(* send() with its baseline of previous packets, writing 32-byte reports   *)
(* through a HID device that may fail any write.                           *)
(***************************************************************************)
EXTENDS Integers, Sequences, FiniteSets, TLC

VARIABLES
    width,          \* OledScreen.width
    height,         \* OledScreen.height
    data,           \* OledScreen.data: the canvas bytes (data[i+1] is byte i)
    prev_packets,   \* OledScreen._prev_packets: Option<Vec<DataPacket>>
    write_log,      \* the device: every report whose write returned Ok, in order
    write_errors,   \* the device: how many writes returned Err so far
    last,           \* history: the name of the last operation called
    last_send,      \* history: the latest send() call
    prior_send,     \* history: the send() call before the latest one
    ops,            \* history: how many operations were called
    call,           \* history: the latest recorded call, its arguments and result
    panicked        \* the thread panicked (index out of bounds, unwrap of Err)

vars == <<width, height, data, prev_packets, write_log, write_errors,
          last, last_send, prior_send, ops, call, panicked>>

----------------------------------------------------------------------------
(* Bounds of the model *)

\* how many operations one behaviour calls
MaxOps == 4

\* the device may fail the 1st .. MaxFailAt-th write of a send() call
MaxFailAt == 2

\* the (width, height) pairs a screen is constructed with
Dims == {<<16, 16>>, <<32, 128>>}

----------------------------------------------------------------------------
(* Program constants *)

PAYLOAD_SIZE == 32

\* the largest value of DataPacket's index: u8
U8_MAX == 255

----------------------------------------------------------------------------
(* u8 arithmetic *)

Bit(a, k) == (a \div (2 ^ k)) % 2

RECURSIVE BitAnd(_, _, _)
BitAnd(a, b, k) ==
    IF k > 7 THEN 0
    ELSE Bit(a, k) * Bit(b, k) * (2 ^ k) + BitAnd(a, b, k + 1)

RECURSIVE BitOr(_, _, _)
BitOr(a, b, k) ==
    IF k > 7 THEN 0
    ELSE (IF Bit(a, k) + Bit(b, k) > 0 THEN 2 ^ k ELSE 0) + BitOr(a, b, k + 1)

RECURSIVE BitXor(_, _, _)
BitXor(a, b, k) ==
    IF k > 7 THEN 0
    ELSE (IF Bit(a, k) # Bit(b, k) THEN 2 ^ k ELSE 0) + BitXor(a, b, k + 1)

\* mutant: the bit index is counted from the least significant bit
MaskFromLeastSignificant(bit_index) == 2 ^ bit_index

\* 0b10000000 >> bit_index
Mask(bit_index) == 128 \div (2 ^ bit_index)

get_bit_at_index(byte, bit_index) ==
    BitAnd(Mask(bit_index), byte, 0) # 0

set_bit_at_index(byte, bit_index, enabled) ==
    IF enabled
    THEN BitOr(Mask(bit_index), byte, 0)
    ELSE BitAnd(BitXor(Mask(bit_index), 255, 0), byte, 0)

----------------------------------------------------------------------------
(* The canvas *)

\* vec![value; (width * height) / 8]
VecOf(value, w, h) == [i \in 1..((w * h) \div 8) |-> value]

\* get_pixel: let byte_index = (x + y * self.width) / 8
byte_index(x, y) == (x + y * width) \div 8

\* get_pixel panics: self.data[byte_index] is out of bounds
get_pixel_panics(d, x, y) == byte_index(x, y) >= Len(d)

get_pixel(d, x, y) ==
    LET bit_index == 7 - (x % 8)
    IN get_bit_at_index(d[byte_index(x, y) + 1], bit_index)

\* mutant: the column stride is the width instead of the height
target_byte_by_width(x, y) == (x \div 8) * width + y
\* set_pixel: let target_byte = (x / 8) * self.height + y
target_byte(x, y) == (x \div 8) * height + y

\* mutant: the row just below the canvas passes the bounds check
out_of_canvas_below_passes(x, y) == x >= width \/ y > height
\* set_pixel: if x >= self.width || y >= self.height { return }
out_of_canvas(x, y) == x >= width \/ y >= height

\* set_pixel panics: self.data[target_byte] is out of bounds
set_pixel_panics(d, x, y) ==
    ~out_of_canvas(x, y) /\ target_byte(x, y) >= Len(d)

\* the buffer after set_pixel; a call that panics leaves it as it was
set_pixel(d, x, y, enabled) ==
    IF out_of_canvas(x, y) \/ set_pixel_panics(d, x, y)
    THEN d
    ELSE LET target_bit == 7 - (x % 8)
         IN [d EXCEPT ![target_byte(x, y) + 1] =
                 set_bit_at_index(d[target_byte(x, y) + 1], target_bit, enabled)]

\* for y in min_y..max_y { set_pixel(x, y, enabled) }
RECURSIVE paint_column(_, _, _, _, _)
paint_column(d, x, y, max_y, enabled) ==
    IF y >= max_y \/ set_pixel_panics(d, x, y) THEN d
    ELSE paint_column(set_pixel(d, x, y, enabled), x, y + 1, max_y, enabled)

\* for x in min_x..max_x { for y in min_y..max_y { ... } }
RECURSIVE paint_region(_, _, _, _, _, _)
paint_region(d, min_x, min_y, max_x, max_y, enabled) ==
    IF min_x >= max_x THEN d
    ELSE paint_region(paint_column(d, min_x, min_y, max_y, enabled),
                      min_x + 1, min_y, max_x, max_y, enabled)

\* paint_region panics when one of its set_pixel calls does
paint_region_panics(d, min_x, min_y, max_x, max_y) ==
    \E x \in min_x..(max_x - 1), y \in min_y..(max_y - 1) :
        set_pixel_panics(d, x, y)

\* draw_image: let enabled = pixel.0[0] == 255
image_enabled(pixel) == pixel = 255

\* draw_letter: let enabled = (byte as f32 / 255.0).round() as i32 == 1
letter_enabled(byte) == 2 * byte >= 255

\* the loop of draw_image and of draw_letter over the source pixels, where
\* source pixel index goes to column x + index % w, row y + h - index / w
RECURSIVE blit(_, _, _, _, _, _, _)
blit(d, enabled, w, h, x, y, index) ==
    IF \/ index >= Len(enabled)
       \/ set_pixel_panics(d, x + (index % w), y + h - (index \div w))
    THEN d
    ELSE blit(set_pixel(d, x + (index % w), y + h - (index \div w),
                        enabled[index + 1]),
              enabled, w, h, x, y, index + 1)

draw_image(d, pixels, w, h, x, y) ==
    blit(d, [i \in 1..Len(pixels) |-> image_enabled(pixels[i])], w, h, x, y, 0)

draw_letter(d, bitmap, w, h, x, y) ==
    blit(d, [i \in 1..Len(bitmap) |-> letter_enabled(bitmap[i])], w, h, x, y, 0)

\* the blit panics when one of its set_pixel calls does
blit_panics(d, n, w, h, x, y) ==
    \E index \in 0..(n - 1) :
        set_pixel_panics(d, x + (index % w), y + h - (index \div w))

----------------------------------------------------------------------------
(* Packets *)

DataPacket_new(starting_index, payload) ==
    [index |-> starting_index, payload |-> payload]

\* itertools chunks(n): consecutive groups of n items, the last one shorter
chunks(s, n) ==
    [k \in 1..((Len(s) + n - 1) \div n) |->
        SubSeq(s, (k - 1) * n + 1, IF k * n <= Len(s) THEN k * n ELSE Len(s))]

\* a zeroed [u8; PAYLOAD_SIZE - 2] with the chunk's bytes copied to its front
output_array(chunk) ==
    [i \in 1..(PAYLOAD_SIZE - 2) |-> IF i <= Len(chunk) THEN chunk[i] ELSE 0]

\* mutant: the buffer chunked by the report size instead of the payload size
to_packets_report_chunks(d) ==
    LET cs == chunks(d, PAYLOAD_SIZE)
    IN [k \in 1..Len(cs) |-> DataPacket_new(k - 1, output_array(cs[k]))]

\* mutant: the index is cast as u8, which wraps
try_into_u8_wrapping(index) == [ok |-> TRUE, value |-> index % (U8_MAX + 1)]

\* index.try_into(): Ok(index) when the usize fits a u8, Err otherwise
try_into_u8(index) ==
    IF index <= U8_MAX THEN [ok |-> TRUE, value |-> index]
    ELSE [ok |-> FALSE, value |-> 0]

\* to_packets panics: unwrap() of the Err of an index that does not fit
to_packets_panics(d) ==
    LET cs == chunks(d, PAYLOAD_SIZE - 2)
    IN \E k \in 1..Len(cs) : ~try_into_u8(k - 1).ok

to_packets(d) ==
    LET cs == chunks(d, PAYLOAD_SIZE - 2)
    IN [k \in 1..Len(cs) |->
           DataPacket_new(try_into_u8(k - 1).value, output_array(cs[k]))]

\* mutant: the two header bytes in the other order
to_bytes_index_first(p) == <<p.index, 1>> \o p.payload

to_bytes(p) == <<1, p.index>> \o p.payload

\* equality of two DataPackets: index and payload
PacketEq(p, q) == p.index = q.index /\ p.payload = q.payload

\* mutant: a packet is found when any previous packet has its payload
ContainsPayload(prev, packet) ==
    \E i \in 1..Len(prev) : prev[i].payload = packet.payload

\* prev_packets.contains(packet)
Contains(prev, packet) == \E i \in 1..Len(prev) : PacketEq(prev[i], packet)

\* mutant: the negation of the retain predicate dropped
RetainContained(packets, prev) ==
    SelectSeq(packets, LAMBDA p : Contains(prev, p))

\* packets.retain(|packet| !prev_packets.contains(packet))
Retain(packets, prev) == SelectSeq(packets, LAMBDA p : ~Contains(prev, p))

None == [some |-> FALSE, packets |-> << >>]
Some(packets) == [some |-> TRUE, packets |-> packets]

\* let mut packets = self.to_packets(); if let Some(prev_packets) = ... retain
\* mutant: an absent baseline is taken to be the frame of a blank canvas
SurvivorsAgainstBlank(d, prev) ==
    Retain(to_packets(d),
           IF prev.some THEN prev.packets
           ELSE to_packets([i \in 1..Len(d) |-> 0]))
Survivors(d, prev) ==
    IF prev.some THEN Retain(to_packets(d), prev.packets) ELSE to_packets(d)

\* mutant: a failed write is remembered but the loop goes on
RECURSIVE send_loop_no_abort(_, _, _)
send_loop_no_abort(packets, i, fail_at) ==
    IF i > Len(packets)
    THEN [ret |-> "Ok", attempted |-> << >>, written |-> << >>]
    ELSE LET bytes == to_bytes(packets[i])
             rest == send_loop_no_abort(packets, i + 1, fail_at)
         IN IF i = fail_at
            THEN [ret |-> "Err", attempted |-> << bytes >> \o rest.attempted,
                  written |-> rest.written]
            ELSE [ret |-> rest.ret,
                  attempted |-> << bytes >> \o rest.attempted,
                  written |-> << bytes >> \o rest.written]

\* mutant: the packets are written last to first
RECURSIVE send_loop_descending(_, _, _)
send_loop_descending(packets, i, fail_at) ==
    IF i > Len(packets)
    THEN [ret |-> "Ok", attempted |-> << >>, written |-> << >>]
    ELSE LET bytes == to_bytes(packets[Len(packets) + 1 - i])
         IN IF i = fail_at
            THEN [ret |-> "Err", attempted |-> << bytes >>, written |-> << >>]
            ELSE LET rest == send_loop_descending(packets, i + 1, fail_at)
                 IN [ret |-> rest.ret,
                     attempted |-> << bytes >> \o rest.attempted,
                     written |-> << bytes >> \o rest.written]

\* for packet in packets { packet.send(device)? } Ok(()), from the i-th packet
\* on; the device fails the fail_at-th write of the call (0: none)
RECURSIVE send_loop(_, _, _)
send_loop(packets, i, fail_at) ==
    IF i > Len(packets)
    THEN [ret |-> "Ok", attempted |-> << >>, written |-> << >>]
    ELSE LET bytes == to_bytes(packets[i])
         IN IF i = fail_at
            THEN [ret |-> "Err", attempted |-> << bytes >>, written |-> << >>]
            ELSE LET rest == send_loop(packets, i + 1, fail_at)
                 IN [ret |-> rest.ret,
                     attempted |-> << bytes >> \o rest.attempted,
                     written |-> << bytes >> \o rest.written]

\* mutant: the baseline keeps only the packets that survived the filter
send_keeps_survivors(d, prev, fail_at) ==
    LET packets == Survivors(d, prev)
        done == send_loop(packets, 1, fail_at)
    IN [prev_packets |-> Some(packets), ret |-> done.ret,
        attempted |-> done.attempted, written |-> done.written]

\* mutant: the baseline is replaced only when every write succeeded
send_commits_on_success(d, prev, fail_at) ==
    LET packets == Survivors(d, prev)
        done == send_loop(packets, 1, fail_at)
    IN [prev_packets |-> IF done.ret = "Ok" THEN Some(to_packets(d)) ELSE prev,
        ret |-> done.ret,
        attempted |-> done.attempted, written |-> done.written]

\* OledScreen::send: the new _prev_packets, the result, the reports handed to
\* the device and those whose write returned Ok
send(d, prev, fail_at) ==
    LET packets == Survivors(d, prev)
        baseline == Some(to_packets(d))
        done == send_loop(packets, 1, fail_at)
    IN [prev_packets |-> baseline, ret |-> done.ret,
        attempted |-> done.attempted, written |-> done.written]

----------------------------------------------------------------------------
(* Inputs of the drawing operations *)

\* <<x, y>>
Points == { <<0, 0>>, <<9, 1>>, <<width, 0>>, <<0, height>> }

\* <<min_x, min_y, max_x, max_y>>
Regions == { <<7, height - 2, 10, height + 1>>,
             <<width - 1, 0, width + 2, 2>>,
             <<9, 0, 9, 1>> }

Min(a, b) == IF a <= b THEN a ELSE b

NoCall == [op |-> "none", args |-> << >>, enabled |-> FALSE, source |-> << >>,
           before |-> << >>, ret |-> FALSE]

NoSend == [called |-> FALSE, data |-> << >>, baseline |-> None, fail_at |-> 0,
           ret |-> "None", attempted |-> << >>, log_len |-> 0]

----------------------------------------------------------------------------
(* The state machine *)

\* OledScreen::from_device(device, width, height)
InitOn(dims) ==
    /\ \E dim \in dims : width = dim[1] /\ height = dim[2]
    /\ data = VecOf(0, width, height)
    /\ prev_packets = None
    /\ write_log = << >>
    /\ write_errors = 0
    /\ last = "from_device"
    /\ last_send = NoSend
    /\ prior_send = [called |-> FALSE, ret |-> "None", same_data |-> FALSE]
    /\ ops = 0
    /\ call = NoCall
    /\ panicked = FALSE

Init == InitOn(Dims)

\* mutant: a drawing operation forgets the baseline
DrawForgetsBaseline(op, d, panics) ==
    /\ ~panicked
    /\ call = NoCall
    /\ ops < MaxOps
    /\ data' = (IF panics THEN data ELSE d)
    /\ panicked' = panics
    /\ last' = op
    /\ ops' = ops + 1
    /\ prev_packets' = None
    /\ UNCHANGED <<width, height, write_log, write_errors, last_send,
                   prior_send, call>>
\* a drawing operation; a panic ends the run with the buffer as it was
Draw(op, d, panics) ==
    /\ ~panicked
    /\ call = NoCall
    /\ ops < MaxOps
    /\ data' = (IF panics THEN data ELSE d)
    /\ panicked' = panics
    /\ last' = op
    /\ ops' = ops + 1
    /\ UNCHANGED <<width, height, prev_packets, write_log, write_errors,
                   last_send, prior_send, call>>

SetPixel ==
    \E p \in Points, enabled \in BOOLEAN :
        Draw("set_pixel", set_pixel(data, p[1], p[2], enabled),
             set_pixel_panics(data, p[1], p[2]))

PaintRegion ==
    \E r \in Regions, enabled \in BOOLEAN :
        Draw("paint_region",
             paint_region(data, r[1], r[2], r[3], r[4], enabled),
             paint_region_panics(data, r[1], r[2], r[3], r[4]))

Clear == Draw("clear", VecOf(0, width, height), FALSE)

FillAll == Draw("fill_all", VecOf(1, width, height), FALSE)

Send ==
    /\ ~panicked
    /\ ops < MaxOps
    /\ IF to_packets_panics(data)
       THEN /\ panicked' = TRUE
            /\ UNCHANGED <<prev_packets, write_log, write_errors, last_send,
                           prior_send>>
       ELSE /\ panicked' = FALSE
            /\ \E fail_at \in
                       0..Min(MaxFailAt, Len(Survivors(data, prev_packets))) :
                   LET done == send(data, prev_packets, fail_at)
                   IN /\ prev_packets' = done.prev_packets
                      /\ write_log' = write_log \o done.written
                      /\ write_errors' =
                             write_errors + (IF done.ret = "Err" THEN 1 ELSE 0)
                      /\ last_send' =
                             [called |-> TRUE, data |-> data,
                              baseline |-> prev_packets, fail_at |-> fail_at,
                              ret |-> done.ret, attempted |-> done.attempted,
                              log_len |-> Len(write_log)]
            /\ prior_send' =
                   [called |-> last_send.called, ret |-> last_send.ret,
                    same_data |-> last_send.called /\ last_send.data = data]
    /\ last' = "send"
    /\ ops' = ops + 1
    /\ UNCHANGED <<width, height, data, call>>

Next == SetPixel \/ PaintRegion \/ Clear \/ FillAll \/ Send

Spec == Init /\ [][Next]_vars

----------------------------------------------------------------------------
(* The canvas alone: a canvas drawn on as above, then one observed call *)

CanvasDims == { <<16, 3>>, <<8, 4>>, <<12, 4>> }

CanvasXs == 0..(width + 1)
CanvasYs == 0..(height + 1)

\* <<width, height>> of a source image or glyph
Shapes == { <<1, 2>>, <<2, 1>>, <<2, 2>> }

BlitXs == { 0, 7, width - 1 }
BlitYs == { 0, height - 2, height - 1 }

ImagePixels == { 0, 255 }
CoverageBytes == { 127, 128 }

InitCanvas == InitOn(CanvasDims)

\* the call is recorded with its arguments, the buffer it found and its result
Observe(op, args, enabled, source, d, panics, ret) ==
    /\ ~panicked
    /\ call = NoCall
    /\ call' = [op |-> op, args |-> args, enabled |-> enabled,
                source |-> source, before |-> data, ret |-> ret]
    /\ data' = (IF panics THEN data ELSE d)
    /\ panicked' = panics
    /\ last' = op
    /\ UNCHANGED <<width, height, prev_packets, write_log, write_errors,
                   last_send, prior_send, ops>>

CallSetPixel ==
    \E x \in CanvasXs, y \in CanvasYs, enabled \in BOOLEAN :
        Observe("set_pixel", <<x, y>>, enabled, << >>,
                set_pixel(data, x, y, enabled),
                set_pixel_panics(data, x, y), FALSE)

CallGetPixel ==
    \E x \in 0..(width - 1), y \in 0..(height - 1) :
        Observe("get_pixel", <<x, y>>, FALSE, << >>, data,
                get_pixel_panics(data, x, y),
                IF get_pixel_panics(data, x, y) THEN FALSE
                ELSE get_pixel(data, x, y))

CallPaintRegion ==
    \E r \in Regions, enabled \in BOOLEAN :
        Observe("paint_region", r, enabled, << >>,
                paint_region(data, r[1], r[2], r[3], r[4], enabled),
                paint_region_panics(data, r[1], r[2], r[3], r[4]), FALSE)

CallDrawImage ==
    \E shape \in Shapes, x \in BlitXs, y \in BlitYs :
        \E pixels \in [1..(shape[1] * shape[2]) -> ImagePixels] :
            Observe("draw_image", <<x, y, shape[1], shape[2]>>, FALSE, pixels,
                    draw_image(data, pixels, shape[1], shape[2], x, y),
                    blit_panics(data, Len(pixels), shape[1], shape[2], x, y),
                    FALSE)

CallDrawLetter ==
    \E shape \in Shapes, x \in BlitXs, y \in BlitYs :
        \E bitmap \in [1..(shape[1] * shape[2]) -> CoverageBytes] :
            Observe("draw_letter", <<x, y, shape[1], shape[2]>>, FALSE, bitmap,
                    draw_letter(data, bitmap, shape[1], shape[2], x, y),
                    blit_panics(data, Len(bitmap), shape[1], shape[2], x, y),
                    FALSE)

NextCanvas ==
    \/ SetPixel \/ PaintRegion \/ Clear \/ FillAll
    \/ CallSetPixel \/ CallGetPixel \/ CallPaintRegion
    \/ CallDrawImage \/ CallDrawLetter

SpecCanvas == InitCanvas /\ [][NextCanvas]_vars

----------------------------------------------------------------------------
(* The packetizer alone: canvases around the 256 packets a u8 index can number *)

PacketizerDims == { <<240, 255>>, <<256, 239>>, <<256, 240>>, <<8, 7681>>,
                    <<248, 248>>, <<256, 256>> }

InitPacketizer == InitOn(PacketizerDims)

CallToPackets ==
    Observe("to_packets", << >>, FALSE, << >>, data, to_packets_panics(data),
            FALSE)

NextPacketizer == SetPixel \/ PaintRegion \/ Clear \/ FillAll \/ CallToPackets

SpecPacketizer == InitPacketizer /\ [][NextPacketizer]_vars

----------------------------------------------------------------------------
(* The bit helpers alone: set_bit_at_index on a byte, then get_bit_at_index *)
(* on its result                                                            *)

Bytes == 0..U8_MAX
BitIndices == 0..7

CallSetBit ==
    /\ call.op = "none"
    /\ \E byte \in Bytes, bit_index \in BitIndices, enabled \in BOOLEAN :
           call' = [op |-> "set_bit_at_index", args |-> <<byte, bit_index>>,
                    enabled |-> enabled, source |-> << >>, before |-> << >>,
                    ret |-> set_bit_at_index(byte, bit_index, enabled)]
    /\ last' = "set_bit_at_index"
    /\ UNCHANGED <<width, height, data, prev_packets, write_log, write_errors,
                   last_send, prior_send, ops, panicked>>

\* the byte read is the one set_bit_at_index returned; source keeps its call
CallGetBit ==
    /\ call.op = "set_bit_at_index"
    /\ \E bit_index \in BitIndices :
           call' = [op |-> "get_bit_at_index", args |-> <<call.ret, bit_index>>,
                    enabled |-> call.enabled, source |-> call.args,
                    before |-> << >>,
                    ret |-> get_bit_at_index(call.ret, bit_index)]
    /\ last' = "get_bit_at_index"
    /\ UNCHANGED <<width, height, data, prev_packets, write_log, write_errors,
                   last_send, prior_send, ops, panicked>>

NextBits == CallSetBit \/ CallGetBit

SpecBits == Init /\ [][NextBits]_vars

----------------------------------------------------------------------------
(* What the properties speak of *)

\* the state right after a send() call
AfterSend == last = "send"

\* the reports the latest send() handed to the device, in order
Attempted == last_send.attempted

\* the full packet sequence of the canvas the latest send() was called on
Frame == to_packets(last_send.data)

\* the latest send() handed the device a report with this sequence index
Transmitted(index) == \E i \in 1..Len(Attempted) : Attempted[i][2] = index

\* the device-side image: the payload of the last report of the log written
\* with this sequence index; the device memory starts zeroed
DeviceImage(log, index) ==
    LET at == {k \in 1..Len(log) : log[k][2] = index}
    IN IF at = {}
       THEN [i \in 1..(PAYLOAD_SIZE - 2) |-> 0]
       ELSE LET newest == CHOOSE m \in at : \A k \in at : k <= m
            IN SubSeq(log[newest], 3, Len(log[newest]))

\* a packet of the baseline with another index holds this packet's payload
TwinElsewhere(p, baseline) ==
    \E j \in 1..Len(baseline) :
        baseline[j].index # p.index /\ baseline[j].payload = p.payload

\* a packet of the baseline with this packet's index holds its payload
SameInPlace(p, baseline) ==
    \E j \in 1..Len(baseline) :
        baseline[j].index = p.index /\ baseline[j].payload = p.payload

\* the bit of pixel (x, y) in the canvas layout: byte (x / 8) * H + y, bit
\* 7 - (x % 8) counted from the least significant bit
PixelBit(d, x, y) == Bit(d[(x \div 8) * height + y + 1], 7 - (x % 8)) = 1

\* the bit that set_pixel(x, y, _) writes
WrittenBit(d, x, y) ==
    get_bit_at_index(d[target_byte(x, y) + 1], 7 - (x % 8))

----------------------------------------------------------------------------
(* Properties *)

\* C1: a send() that follows a successful send(), the canvas bytes being the
\* same at both calls, hands no report to the device and leaves the device's
\* write log as it was.
IdempotentDiffing ==
    (AfterSend /\ prior_send.called /\ prior_send.ret = "Ok"
               /\ prior_send.same_data)
        => /\ Attempted = << >>
           /\ Len(write_log) = last_send.log_len

\* fill_all, send, fill_all, send on a 32x128 screen: 18 log entries
IdempotentDiffingWitness ==
    /\ AfterSend /\ prior_send.ret = "Ok" /\ prior_send.same_data
    /\ width = 32 /\ height = 128
    /\ \A i \in 1..Len(data) : data[i] = 1
    /\ Len(write_log) = 18

\* C2: while no device write has failed, right after each send() the
\* device-side image equals the payload of to_packets() of the canvas, for
\* every sequence index.
DeviceMirrorsFramebuffer ==
    (AfterSend /\ write_errors = 0)
        => LET P == to_packets(data)
           IN \A k \in 1..Len(P) :
                  DeviceImage(write_log, k - 1) = P[k].payload

\* an incremental send: only some packets of a changed canvas were written
DeviceMirrorsFramebufferWitness ==
    /\ AfterSend /\ write_errors = 0
    /\ prior_send.called /\ ~prior_send.same_data
    /\ Len(Attempted) > 0
    /\ Len(Attempted) < Len(to_packets(data))

\* C3: for every in-range (x, y) and either value v, on any canvas content,
\* set_pixel(x, y, v) followed by get_pixel(x, y) returns v.
SetGetSymmetry ==
    \A p \in Points, v \in BOOLEAN :
        (p[1] < width /\ p[2] < height)
            => get_pixel(set_pixel(data, p[1], p[2], v), p[1], p[2]) = v

\* C4: after any send(), returned Ok or Err, the baseline is the full packet
\* sequence of the canvas the call was made on.
BaselineIsFullFrame ==
    AfterSend => prev_packets = Some(Frame)

\* a send() that failed after filtering against an earlier baseline
BaselineIsFullFrameWitness ==
    /\ AfterSend /\ last_send.ret = "Err" /\ last_send.baseline.some
    /\ Len(Attempted) < Len(Frame)
    /\ prev_packets # last_send.baseline

\* C5: when the device fails the k-th write of a send(), the call returns the
\* failure, the reports handed to the device are exactly those of the first k
\* surviving packets, and the log gains exactly the first k-1 of them.
AbortsOnFirstFailure ==
    (AfterSend /\ last_send.fail_at > 0)
        => LET sv == Survivors(last_send.data, last_send.baseline)
               k == last_send.fail_at
           IN /\ last_send.ret = "Err"
              /\ Len(Attempted) = k
              /\ \A i \in 1..k : Attempted[i] = to_bytes(sv[i])
              /\ Len(write_log) = last_send.log_len + k - 1
              /\ \A i \in 1..(k - 1) :
                     write_log[last_send.log_len + i] = to_bytes(sv[i])

\* the first write failed although more packets were due
AbortsOnFirstFailureWitness ==
    /\ AfterSend /\ last_send.fail_at = 1
    /\ Len(Survivors(last_send.data, last_send.baseline)) > 1
    /\ Len(Attempted) = 1

\* C6: a send() that follows a failed send(), the canvas bytes being the same
\* at both calls, returns Ok and hands no report to the device.
RetryAfterFailureSendsNothing ==
    (AfterSend /\ prior_send.called /\ prior_send.ret = "Err"
               /\ prior_send.same_data)
        => /\ last_send.ret = "Ok"
           /\ Attempted = << >>
           /\ Len(write_log) = last_send.log_len

\* after such a retry returned Ok the device-side image is not the canvas
RetryAfterFailureSendsNothingWitness ==
    /\ AfterSend /\ prior_send.ret = "Err" /\ prior_send.same_data
    /\ last_send.ret = "Ok"
    /\ \E k \in 1..Len(to_packets(data)) :
           DeviceImage(write_log, k - 1) # to_packets(data)[k].payload

\* C7 as stated: in a send() with a baseline, a current packet whose payload
\* is the payload of a baseline packet with another index is not transmitted.
MembershipIgnoresIndex ==
    (AfterSend /\ last_send.baseline.some)
        => \A k \in 1..Len(Frame) :
               TwinElsewhere(Frame[k], last_send.baseline.packets)
                   => ~Transmitted(Frame[k].index)

\* C7 amended: in a send() with a baseline whose writes all succeed, a current
\* packet whose payload is the payload of a baseline packet with another index
\* is transmitted unless the baseline packet with its own index has that
\* payload too.
MembershipComparesIndexAndPayload ==
    (AfterSend /\ last_send.baseline.some /\ last_send.ret = "Ok")
        => LET F == Frame
           IN \A k \in 1..Len(F) :
                  TwinElsewhere(F[k], last_send.baseline.packets)
                      => (Transmitted(F[k].index)
                            <=> ~SameInPlace(F[k], last_send.baseline.packets))

\* a packet was transmitted although its payload sat elsewhere in the baseline
MembershipComparesIndexAndPayloadWitness ==
    /\ AfterSend /\ last_send.baseline.some /\ last_send.ret = "Ok"
    /\ \E k \in 1..Len(Frame) :
           /\ TwinElsewhere(Frame[k], last_send.baseline.packets)
           /\ Transmitted(Frame[k].index)

\* C8: to_packets() of a buffer of L bytes yields ceil(L / (PAYLOAD_SIZE-2))
\* packets; packet k has sequence index k and payload buffer[30k .. 30k+29],
\* zero past the end of the buffer; 512 bytes give 18 packets.
PacketizerShape ==
    LET P == to_packets(data)
        L == Len(data)
        n == PAYLOAD_SIZE - 2
    IN /\ Len(P) = (L + n - 1) \div n
       /\ \A k \in 0..(Len(P) - 1) :
              /\ P[k + 1].index = k
              /\ Len(P[k + 1].payload) = n
              /\ \A j \in 0..(n - 1) :
                     P[k + 1].payload[j + 1] =
                         IF n * k + j < L THEN data[n * k + j + 1] ELSE 0
       /\ (L = 512 => Len(P) = 18)

\* a filled 32x128 canvas: packet 17 holds two buffer bytes, then zeros
PacketizerShapeWitness ==
    /\ Len(data) = 512
    /\ Len(to_packets(data)) = 18
    /\ to_packets(data)[18].index = 17
    /\ to_packets(data)[18].payload[2] = 1
    /\ to_packets(data)[18].payload[3] = 0

\* C9: every report send() hands to the device is PAYLOAD_SIZE bytes: byte 0
\* is 1, byte 1 the sequence index of a packet of the canvas, bytes 2..31 that
\* packet's payload.
WireFormat ==
    /\ \A i \in 1..Len(write_log) :
           Len(write_log[i]) = PAYLOAD_SIZE /\ write_log[i][1] = 1
    /\ LET F == Frame
       IN \A i \in 1..Len(Attempted) :
              /\ Len(Attempted[i]) = PAYLOAD_SIZE
              /\ Attempted[i][1] = 1
              /\ \E k \in 1..Len(F) :
                     /\ Attempted[i][2] = F[k].index
                     /\ SubSeq(Attempted[i], 3, PAYLOAD_SIZE) = F[k].payload

\* a report with a sequence index above 0 and a payload that is not all zero
WireFormatWitness ==
    /\ AfterSend
    /\ \E i \in 1..Len(Attempted) :
           /\ Attempted[i][2] > 0
           /\ \E j \in 3..PAYLOAD_SIZE : Attempted[i][j] # 0

\* C10: within one send() the reports are handed to the device in strictly
\* ascending order of sequence index.
AscendingOrder ==
    \A i, j \in 1..Len(Attempted) :
        i < j => Attempted[i][2] < Attempted[j][2]

\* an incremental send of at least two packets
AscendingOrderWitness ==
    /\ AfterSend /\ last_send.baseline.some
    /\ Len(Attempted) >= 2

\* C11: a send() that finds no baseline (none was called since construction)
\* filters nothing: it hands the device the report of every packet of
\* to_packets(), in order, whatever the canvas holds, up to a failing write;
\* when no write fails that is one write per packet, 18 for an all-zero
\* 32x128 canvas.
FirstSendIsFull ==
    /\ (AfterSend => (last_send.baseline.some <=> prior_send.called))
    /\ (AfterSend /\ ~last_send.baseline.some) =>
           LET F == Frame
           IN /\ Len(Attempted) <= Len(F)
              /\ \A k \in 1..Len(Attempted) : Attempted[k] = to_bytes(F[k])
              /\ last_send.ret = "Ok" =>
                     /\ Len(Attempted) = Len(F)
                     /\ Len(write_log) = last_send.log_len + Len(F)
                     /\ Len(last_send.data) = 512 => Len(write_log) = 18

\* the first send of an all-zero 32x128 canvas wrote its 18 packets
FirstSendIsFullWitness ==
    /\ AfterSend /\ ~last_send.baseline.some /\ last_send.ret = "Ok"
    /\ width = 32 /\ height = 128
    /\ \A i \in 1..Len(data) : data[i] = 0
    /\ Len(write_log) = 18

\* C12: after clear() every bit of the buffer is 0 (every byte is 0), and
\* after fill_all() every bit of the buffer is 1 (every byte is 0xFF).
ClearAndFillAll ==
    /\ last = "clear" => \A i \in 1..Len(data) : data[i] = 0
    /\ last = "fill_all" => \A i \in 1..Len(data) : data[i] = 255

\* C13: set_pixel(x, y, v) with x >= W or y >= H is a silent no-op: it
\* returns without panicking and the buffer is byte for byte what it was.
OutOfRangeSetPixelIsNoOp ==
    (call.op = "set_pixel" /\ (call.args[1] >= width \/ call.args[2] >= height))
        => (~panicked /\ data = call.before)

\* a pixel one row below a canvas that is not blank was asked to be turned on
OutOfRangeSetPixelIsNoOpWitness ==
    /\ call.op = "set_pixel" /\ call.enabled
    /\ call.args[1] < width /\ call.args[2] = height
    /\ \E i \in 1..Len(call.before) : call.before[i] # 0

\* C14: for x < W and y < H, set_pixel(x, y, v) changes only the byte at
\* index (x / 8) * H + y, and in that byte only the bit selected by the mask
\* 0b10000000 >> (x % 8), which becomes v (x % 8 = 0 is the most significant
\* bit).
SetPixelAddressing ==
    (/\ call.op = "set_pixel" /\ width % 8 = 0
     /\ call.args[1] < width /\ call.args[2] < height) =>
        LET i == (call.args[1] \div 8) * height + call.args[2] + 1
            m == 128 \div (2 ^ (call.args[1] % 8))
        IN /\ \A j \in 1..Len(data) : j # i => data[j] = call.before[j]
           /\ data[i] = IF call.enabled
                        THEN BitOr(m, call.before[i], 0)
                        ELSE BitAnd(255 - m, call.before[i], 0)

IndexFitsOneByte ==
    call.op = "to_packets" =>
        LET needed == (Len(data) + PAYLOAD_SIZE - 3) \div (PAYLOAD_SIZE - 2)
        IN /\ panicked <=> needed > U8_MAX + 1
           /\ panicked <=> Len(data) > (U8_MAX + 1) * (PAYLOAD_SIZE - 2)
           /\ ~panicked =>
                  LET P == to_packets(data)
                  IN /\ Len(P) = needed
                     /\ Len(P) <= U8_MAX + 1
                     /\ \A k \in 1..Len(P) :
                            P[k].index = k - 1 /\ P[k].index \in 0..U8_MAX

\* to_packets() was called on the smallest buffer that needs a 257th packet
IndexFitsOneByteWitness ==
    /\ call.op = "to_packets" /\ panicked
    /\ Len(data) = (U8_MAX + 1) * (PAYLOAD_SIZE - 2) + 1

\* C17: the membership filter coincides with a comparison position by
\* position: in a send() that finds a baseline, the baseline's packet at
\* position i has index i, only packets whose payload differs from it are
\* handed to the device, and when no write fails every such packet is, so
\* that the number of writes is the number of differing indices.
FilterIsPositional ==
    (AfterSend /\ last_send.baseline.some) =>
        LET F == Frame
            B == last_send.baseline.packets
            Differing == { k \in 1..Len(F) : B[k].payload # F[k].payload }
        IN /\ Len(B) = Len(F)
           /\ \A k \in 1..Len(F) : B[k].index = k - 1 /\ F[k].index = k - 1
           /\ \A i \in 1..Len(Attempted) : (Attempted[i][2] + 1) \in Differing
           /\ Len(Attempted) <= Cardinality(Differing)
           /\ last_send.ret = "Ok" =>
                  /\ \A k \in Differing : Transmitted(k - 1)
                  /\ Len(Attempted) = Cardinality(Differing)
                  /\ Len(write_log) = last_send.log_len + Cardinality(Differing)

\* an incremental send where some packets differ from the baseline in place
\* and the others do not, and one that differs holds a payload the baseline
\* has at another index
FilterIsPositionalWitness ==
    /\ AfterSend /\ last_send.baseline.some /\ last_send.ret = "Ok"
    /\ Len(Attempted) >= 1 /\ Len(Attempted) < Len(Frame)
    /\ \E k \in 1..Len(Frame) :
           /\ Frame[k].payload # last_send.baseline.packets[k].payload
           /\ TwinElsewhere(Frame[k], last_send.baseline.packets)

\* C18: only send() touches the baseline and the device: set_pixel,
\* paint_region, clear and fill_all leave the baseline and the device's write
\* log as they were, so the baseline changes only by being replaced inside
\* send(); and send() leaves the canvas buffer as it was.
OnlySendTouchesBaselineAndDevice ==
    [][/\ last' \in {"set_pixel", "paint_region", "clear", "fill_all"} =>
              /\ prev_packets' = prev_packets
              /\ write_log' = write_log
              /\ write_errors' = write_errors
       /\ prev_packets' # prev_packets => last' = "send"
       /\ last' = "send" =>
              /\ data' = data
              /\ width' = width /\ height' = height]_vars

\* after a send, a drawing operation changed the canvas and the baseline is
\* still the frame of the canvas that was sent
OnlySendTouchesBaselineAndDeviceWitness ==
    /\ last \in {"set_pixel", "paint_region", "clear", "fill_all"}
    /\ last_send.called /\ Len(write_log) > 0
    /\ data # last_send.data
    /\ prev_packets = Some(to_packets(last_send.data))

\* C19: on a canvas whose width is a multiple of 8 the buffer is W * H / 8
\* bytes long in every reachable state, and every set_pixel and get_pixel with
\* x < W and y < H computes a byte index below that length, so that no
\* operation indexes outside the buffer.
BufferLengthAndIndexBounds ==
    width % 8 = 0 =>
        /\ ~panicked
        /\ Len(data) = (width * height) \div 8
        /\ \A x \in 0..(width - 1), y \in 0..(height - 1) :
               /\ (x \div 8) * height + y < Len(data)
               /\ (x + y * width) \div 8 < Len(data)
        /\ call.op = "set_pixel" /\ ~out_of_canvas(call.args[1], call.args[2])
               => target_byte(call.args[1], call.args[2]) < Len(call.before)
        /\ call.op = "get_pixel"
               => byte_index(call.args[1], call.args[2]) < Len(call.before)

\* the last pixel of the canvas was set, through the last byte of the buffer
BufferLengthAndIndexBoundsWitness ==
    /\ width % 8 = 0
    /\ call.op = "set_pixel" /\ call.enabled
    /\ call.args = <<width - 1, height - 1>>
    /\ target_byte(width - 1, height - 1) = Len(data) - 1
    /\ data # call.before

BitHelperRoundTrip ==
    /\ call.op = "set_bit_at_index" =>
           LET b == call.args[1]
               i == call.args[2]
           IN /\ call.ret \in 0..255
              /\ \A k \in 0..7 :
                     (call.ret \div (2 ^ k)) % 2 =
                         IF k = 7 - i THEN (IF call.enabled THEN 1 ELSE 0)
                         ELSE (b \div (2 ^ k)) % 2
              /\ (b = 0 /\ i = 3 /\ call.enabled) => call.ret = 16
              /\ (b = 255 /\ i = 3 /\ ~call.enabled) => call.ret = 239
    /\ call.op = "get_bit_at_index" =>
           LET b == call.source[1]
               i == call.source[2]
               j == call.args[2]
           IN call.ret = IF j = i THEN call.enabled
                         ELSE (b \div (2 ^ (7 - j))) % 2 = 1

\* bit 3 of 0xFF was cleared, giving 0b11101111, and then read back as off
BitHelperRoundTripWitness ==
    /\ call.op = "get_bit_at_index"
    /\ call.source = <<255, 3>> /\ ~call.enabled
    /\ call.args = <<239, 3>>
    /\ call.ret = FALSE

====
